---- MODULE Spec2Model ----
(***************************************************************************)
(* A model of app.py, the Flask front end for LG ThinQ ovens and cooktops: *)
(* the payload projection helpers (pure operators), and the three routes   *)
(* that talk to the vendor API ("/", "/preheat", "/oven-action"), each     *)
(* split at its awaits.                                                    *)
(***************************************************************************)
EXTENDS Integers, Sequences, FiniteSets, TLC

\* ------------------------------------------------------------------------
\* Bounds of the model
\* ------------------------------------------------------------------------
MaxEntries == 3     \* longest raw device list given to the projection
MaxDevices == 3     \* longest DeviceOption list given to _pick_device
MaxValues == 2      \* longest discrete writable list given to _temp_hint
MaxSubs == 3        \* most sub-devices registered on a device given to _pick_subdevice

\* ------------------------------------------------------------------------
\* Values
\* ------------------------------------------------------------------------
\* Python's None in a text-valued slot (no text of the model equals it).
None == "<None>"

\* bool(v) for a text-or-None value: None and "" are falsy.
Truthy(v) == v # None /\ v # ""

\* DeviceOption (a dataclass instance is always truthy); NoDevice is the None
\* that stands where a DeviceOption is expected.
DeviceOption(device_id, alias, model_name, device_type) ==
    [device_id |-> device_id, alias |-> alias,
     model_name |-> model_name, device_type |-> device_type]

NoDevice == DeviceOption(None, None, None, None)

\* str.upper() on the texts the model uses.
upper(s) ==
    CASE s = "oven" -> "OVEN"
      [] s = "Upper" -> "UPPER"
      [] s = "lower" -> "LOWER"
      [] s = "center" -> "CENTER"
      [] s = "bogus" -> "BOGUS"
      [] s = "f" -> "F"
      [] s = "c" -> "C"
      [] s = "device_oven" -> "DEVICE_OVEN"
      [] OTHER -> s

\* ------------------------------------------------------------------------
\* Device Option Projector
\* ------------------------------------------------------------------------
IdKeys == <<"deviceId", "device_id", "id", "deviceID">>
TypeKeys == <<"deviceType", "device_type", "type">>

\* _get(mapping, *keys, default): the first key present with a non-None value.
RECURSIVE _get(_, _, _)
_get(mapping, keys, default) ==
    IF keys = <<>> THEN default
    ELSE IF Head(keys) \in DOMAIN mapping /\ mapping[Head(keys)] # None
         THEN mapping[Head(keys)]
         ELSE _get(mapping, Tail(keys), default)

\* A raw entry is a mapping from keys to texts (or None); the value under
\* "deviceInfo" is <<m>> for a nested mapping m and <<>> for anything else.
IsDict(v) == Len(v) = 1

_normalize_device_entry(entry) ==
    IF "deviceInfo" \in DOMAIN entry /\ IsDict(entry["deviceInfo"])
    THEN LET info == entry["deviceInfo"][1]
             copied == {k \in {IdKeys[i] : i \in DOMAIN IdKeys} :
                           k \in DOMAIN entry /\ k \notin DOMAIN info}
         IN [k \in (DOMAIN info) \cup copied |->
                IF k \in DOMAIN info THEN info[k] ELSE entry[k]]
    ELSE entry

ToDeviceOptionNoTypeCheck(entry) ==
    LET e == _normalize_device_entry(entry)
        device_id == _get(e, IdKeys, None)
        device_type == _get(e, TypeKeys, None)
    IN IF ~Truthy(device_id) THEN NoDevice
       ELSE LET model_name == _get(e, <<"modelName", "model_name">>, "")
                a0 == _get(e, <<"alias", "name">>, model_name)
                alias == IF Truthy(a0) THEN a0
                         ELSE IF Truthy(model_name) THEN model_name ELSE device_id
            IN DeviceOption(device_id, alias, model_name,
                            IF device_type = None THEN "" ELSE device_type)

_to_device_option(entry) ==
    LET e == _normalize_device_entry(entry)
        device_id == _get(e, IdKeys, None)
        device_type == _get(e, TypeKeys, None)
    IN IF ~Truthy(device_id) \/ ~Truthy(device_type) THEN NoDevice
       ELSE LET model_name == _get(e, <<"modelName", "model_name">>, "")
                a0 == _get(e, <<"alias", "name">>, model_name)
                alias == IF Truthy(a0) THEN a0
                         ELSE IF Truthy(model_name) THEN model_name ELSE device_id
            IN DeviceOption(device_id, alias, model_name, device_type)

\* options = [opt for entry in devices if (opt := _to_device_option(entry))]
RECURSIVE project_options(_)
project_options(devices) ==
    IF devices = <<>> THEN <<>>
    ELSE LET opt == _to_device_option(Head(devices))
         IN (IF opt # NoDevice THEN <<opt>> ELSE <<>>) \o project_options(Tail(devices))

\* ------------------------------------------------------------------------
\* Device Selection
\* ------------------------------------------------------------------------
RECURSIVE first_with_id(_, _)
first_with_id(devices, device_id) ==
    IF devices = <<>> THEN NoDevice
    ELSE IF Head(devices).device_id = device_id THEN Head(devices)
         ELSE first_with_id(Tail(devices), device_id)

PickDeviceLastMatch(devices, device_id) ==
    IF devices = <<>> THEN NoDevice
    ELSE LET hits == {i \in DOMAIN devices : devices[i].device_id = device_id}
         IN IF Truthy(device_id) /\ hits # {}
            THEN devices[CHOOSE i \in hits : \A j \in hits : j <= i]
            ELSE devices[1]

_pick_device(devices, device_id) ==
    IF devices = <<>> THEN NoDevice
    ELSE LET hit == IF Truthy(device_id) THEN first_with_id(devices, device_id)
                    ELSE NoDevice
         IN IF hit # NoDevice THEN hit ELSE devices[1]

\* ------------------------------------------------------------------------
\* Sub-device / Location Resolver
\* ------------------------------------------------------------------------
\* The member names of thinqconnect's Location enum that the model uses.
Location == {"OVEN", "UPPER", "LOWER", "CENTER"}

\* A value under PROPERTY_WRITABLE: absent, a list of numbers, or a mapping
\* given as its (key, value) pairs in iteration order.
NoValues == [t |-> "none", list |-> <<>>, dict |-> <<>>]
ListValues(l) == [t |-> "list", list |-> l, dict |-> <<>>]
DictValues(d) == [t |-> "dict", list |-> <<>>, dict |-> d]

\* An oven sub-device: the location it was built for, the
\* REMOTE_CONTROL_ENABLED ("True", "False" or None) and TEMPERATURE_UNIT
\* status it holds, and the writable constraints of its two target-temperature properties.
SubDevice(name, remote, unit, wc, wf) ==
    [name |-> name, remote_enabled |-> remote, temperature_unit |-> unit,
     target_c |-> wc, target_f |-> wf]

NoSub == SubDevice(None, None, None, NoValues, NoValues)

\* device._sub_devices is a sequence of [loc, sub] in registration order.
RECURSIVE get_sub_device(_, _)
get_sub_device(device, location) ==
    IF device = <<>> THEN NoSub
    ELSE IF Head(device).loc = location THEN Head(device).sub
         ELSE get_sub_device(Tail(device), location)

_get_location_enum(location_name) ==
    IF ~Truthy(location_name) THEN None
    ELSE LET key == upper(location_name)
         IN IF key \in Location THEN key ELSE None

RECURSIVE pick_fallback(_, _)
pick_fallback(device, fallbacks) ==
    IF fallbacks = <<>>
    THEN IF device # <<>> THEN <<device[1].sub, device[1].loc>>
         ELSE <<NoSub, None>>
    ELSE LET sub == get_sub_device(device, Head(fallbacks))
         IN IF sub # NoSub THEN <<sub, Head(fallbacks)>>
            ELSE pick_fallback(device, Tail(fallbacks))

PickSubdeviceIgnoringRequest(device, location) ==
    pick_fallback(device, <<"OVEN", "UPPER", "LOWER">>)

_pick_subdevice(device, location) ==
    LET location_enum == _get_location_enum(location)
        sub == IF location_enum # None THEN get_sub_device(device, location_enum)
               ELSE NoSub
    IN IF sub # NoSub THEN <<sub, location_enum>>
       ELSE pick_fallback(device, <<"OVEN", "UPPER", "LOWER">>)

\* ------------------------------------------------------------------------
\* Temperature hint
\* ------------------------------------------------------------------------
RECURSIVE join(_, _)
join(sep, strs) ==
    IF strs = <<>> THEN ""
    ELSE IF Len(strs) = 1 THEN strs[1]
         ELSE strs[1] \o sep \o join(sep, Tail(strs))

\* values.get(key) on a mapping given as pairs: <<v>> when present, else <<>>.
RECURSIVE dict_get(_, _)
dict_get(d, key) ==
    IF d = <<>> THEN <<>>
    ELSE IF d[1][1] = key THEN <<d[1][2]>> ELSE dict_get(Tail(d), key)

_temp_hint(subdevice, unit) ==
    LET values == IF upper(unit) = "C" THEN subdevice.target_c ELSE subdevice.target_f
        min_temp == dict_get(values.dict, "min")
        max_temp == dict_get(values.dict, "max")
    IN IF values.t = "dict" /\ values.dict # <<>>
          /\ min_temp # <<>> /\ max_temp # <<>>
       THEN ToString(min_temp[1]) \o "-" \o ToString(max_temp[1]) \o upper(unit)
       ELSE IF values.t = "dict" /\ values.dict # <<>>
            THEN join(", ", [i \in DOMAIN values.dict |-> values.dict[i][1]])
            ELSE IF values.t = "list" /\ values.list # <<>>
                 THEN join(", ", [i \in DOMAIN values.list |-> ToString(values.list[i])])
                 ELSE None

\* ------------------------------------------------------------------------
\* Payload Normalizer
\* ------------------------------------------------------------------------
\* A vendor payload is a bare list, a mapping holding one list under `key`,
\* or anything else.
ListPayload(items) == [kind |-> "list", key |-> None, items |-> items]
DictPayload(key, items) == [kind |-> "dict", key |-> key, items |-> items]

_extract_list(payload) ==
    IF payload.kind = "list" THEN payload.items
    ELSE IF payload.kind = "dict"
            /\ payload.key \in {"devices", "deviceList", "items", "result"}
         THEN payload.items
         ELSE <<>>

\* A profile payload: a mapping (whose locations the SDK registers as
\* sub-devices, in order) or something that is no mapping.
ProfilePayload(isdict, locations) == [isdict |-> isdict, locations |-> locations]

\* _extract_profile: <<profile>>, or <<>> where it raises ValueError.
_extract_profile(payload) == IF payload.isdict THEN <<payload>> ELSE <<>>

\* A status payload: falsy (empty), or the REMOTE_CONTROL_ENABLED value and
\* the TEMPERATURE_UNIT it reports per location.
StatusPayload(truthy, remote, unit) == [truthy |-> truthy, remote |-> remote, unit |-> unit]

\* ------------------------------------------------------------------------
\* The SDK's OvenDevice, as far as app.py reads it
\* ------------------------------------------------------------------------
WritableC == ListValues(<<150, 175>>)
WritableF == DictValues(<< <<"min", 170>>, <<"max", 550>> >>)

\* OvenDevice(profile=...): one sub-device per location of the profile.
OvenDevice(profile) ==
    [i \in DOMAIN profile.locations |->
        [loc |-> profile.locations[i],
         sub |-> SubDevice(profile.locations[i], None, None, WritableC, WritableF)]]

\* `if status: device.set_status(status)`
set_status(device, status) ==
    IF ~status.truthy THEN device
    ELSE [i \in DOMAIN device |->
            [loc |-> device[i].loc,
             sub |-> [device[i].sub EXCEPT
                        !.remote_enabled = status.remote[device[i].loc],
                        !.temperature_unit = status.unit]]]

contains_OVEN(s) == s \in {"OVEN", "DEVICE_OVEN"}
contains_COOKTOP(s) == s \in {"COOKTOP", "DEVICE_COOKTOP"}

_is_oven(device) == contains_OVEN(upper(device.device_type))
_is_cooktop(device) == contains_COOKTOP(upper(device.device_type))

\* ------------------------------------------------------------------------
\* The request handlers: state
\* ------------------------------------------------------------------------
VARIABLES
    pc,        \* where the request stands: idle, list, profile, status, command, done
    req,       \* the request's parameters as the route read them
    session,   \* the aiohttp ClientSession of the request: none, open, closed
    calls,     \* the vendor calls awaited so far in this request, in order
    options,   \* the projected device list
    selected,  \* _pick_device's result
    profile,   \* the extracted profile
    picked,    \* _pick_subdevice's result, <<sub, location>>
    raised,    \* the error the request ran into, if any
    resp,      \* the response the route handler returned
    fn, arg, out   \* a helper applied on its own: which, to what, with what result

reqVars == <<pc, req, session, calls, options, selected, profile, picked, raised, resp>>
pureVars == <<fn, arg, out>>
vars == <<pc, req, session, calls, options, selected, profile, picked, raised, resp, fn, arg, out>>

NoReq ==
    [route |-> "none", device_id |-> None, location |-> None, action |-> None,
     mode |-> None, temp_raw |-> None, temp |-> <<>>, unit |-> None, refresh |-> FALSE]

NoProfile == ProfilePayload(FALSE, <<>>)
NoExc == [type |-> "none", msg |-> ""]
Exc(type, msg) == [type |-> type, msg |-> msg]

\* status / status_view of an OvenSnapshot; {} is EmptyStatus.
EmptyStatus == [empty |-> TRUE, remote_enabled |-> None, location |-> None]

OvenSnapshot(devices, sel, locations, selected_location, unit, status, temp_hint) ==
    [devices |-> devices, selected |-> sel, locations |-> locations,
     selected_location |-> selected_location, unit |-> unit, status |-> status,
     temp_hint |-> temp_hint]

\* The snapshot the view falls back to: no devices, no selection, unit F, {}.
EmptySnapshot == OvenSnapshot(<<>>, NoDevice, <<>>, None, "F", EmptyStatus, None)

NoResp ==
    [kind |-> "none", flashes |-> <<>>, config_error |-> None, snapshot |-> <<>>,
     device_id |-> None, location |-> None]

Flash(message, category) == [message |-> message, category |-> category]

\* A vendor call as the log keeps it: the SDK method, the device it is
\* addressed to, the sub-device location, and its arguments.
Call(op, device_id, location, args) ==
    [op |-> op, device_id |-> device_id, location |-> location, args |-> args]

InitReq ==
    /\ pc = "idle"
    /\ req = NoReq
    /\ session = "none"
    /\ calls = <<>>
    /\ options = <<>>
    /\ selected = NoDevice
    /\ profile = NoProfile
    /\ picked = <<NoSub, None>>
    /\ raised = NoExc
    /\ resp = NoResp

InitPure ==
    /\ fn = "none"
    /\ arg = <<>>
    /\ out = <<>>

Init == InitReq /\ InitPure

\* ------------------------------------------------------------------------
\* Inputs: what a request may carry and what the vendor may answer
\* ------------------------------------------------------------------------
\* The process environment read by load_config: ("" is an unset variable).
Envs ==
    {[access_token |-> "tok", client_id |-> "cid"],
     [access_token |-> "", client_id |-> "cid"],
     [access_token |-> "tok", client_id |-> " "]}

DeviceIds == {"", "o1", "c1", "zz"}
LocationNames == {None, "Upper", "lower", "bogus"}
Overrides == {None, "oven"}
CookModes == {"", "BAKE"}
Units == {"F", "c"}
TempRaws == {"350", "abc", ""}
PreheatActions == {"preheat", "refresh_preheat", "test_upper", "test_lower", "bogus", "start"}
OvenActions == {"start", "stop", "remote_on", "remote_off", "bogus", "preheat", ""}

rawOven == [deviceId |-> "o1", deviceType |-> "DEVICE_OVEN", alias |-> "Range"]
rawOvenNested ==
    [deviceId |-> "o1",
     deviceInfo |-> <<[deviceType |-> "device_oven", modelName |-> "LRE", alias |-> None]>>]
rawOven2 == [id |-> "o2", type |-> "DEVICE_OVEN"]
rawCooktop == [device_id |-> "c1", device_type |-> "DEVICE_COOKTOP", name |-> "Hob"]
rawFridge == [deviceId |-> "r1", deviceType |-> "DEVICE_REFRIGERATOR"]
rawNoId == [deviceType |-> "DEVICE_OVEN", alias |-> "Ghost"]

\* The answers of async_get_device_list.
DeviceListPayloads ==
    << ListPayload(<<>>),
       ListPayload(<<rawOven>>),
       DictPayload("devices", <<rawCooktop, rawOvenNested>>),
       DictPayload("result", <<rawNoId, rawOven2, rawOven>>),
       DictPayload("body", <<rawOven>>),
       ListPayload(<<rawFridge, rawCooktop>>) >>

\* The answers of async_get_device_profile.
ProfilePayloads ==
    { ProfilePayload(FALSE, <<>>),
      ProfilePayload(TRUE, <<>>),
      ProfilePayload(TRUE, <<"OVEN">>),
      ProfilePayload(TRUE, <<"LOWER", "UPPER">>),
      ProfilePayload(TRUE, <<"CENTER", "LOWER">>),
      ProfilePayload(TRUE, <<"CENTER">>) }

RemoteAll(v) == [l \in Location |-> v]

\* The answers of async_get_device_status.
StatusPayloads ==
    { StatusPayload(FALSE, RemoteAll(None), None),
      StatusPayload(TRUE, RemoteAll(None), None),
      StatusPayload(TRUE, RemoteAll("True"), "C"),
      StatusPayload(TRUE, RemoteAll("False"), "F"),
      StatusPayload(TRUE, [RemoteAll("True") EXCEPT !["UPPER"] = "False"], None),
      StatusPayload(TRUE, [RemoteAll("False") EXCEPT !["LOWER"] = "True"], None) }

VendorError == Exc("ThinQAPIException", "vendor error")

\* str.strip() on the texts the model uses.
strip(s) == IF s = " " THEN "" ELSE s

\* int(temp_raw): <<n>>, or <<>> where it raises ValueError.
int(s) == IF s = "350" THEN <<350>> ELSE <<>>

\* ------------------------------------------------------------------------
\* Config Store
\* ------------------------------------------------------------------------
MissingConfig == "Missing LG_THINQ_ACCESS_TOKEN or LG_THINQ_CLIENT_ID in your .env file."

\* load_config: <<has config, error>>.
load_config(env) ==
    LET access_token == strip(env.access_token)
        client_id == strip(env.client_id)
    IN IF ~Truthy(access_token) \/ ~Truthy(client_id)
       THEN <<FALSE, MissingConfig>>
       ELSE <<TRUE, None>>

\* ------------------------------------------------------------------------
\* The coroutines, from one await to the next
\* ------------------------------------------------------------------------
\* How a stretch of a coroutine ends: at its next await (to), by returning
\* a value, or by raising.
Proceed(to) == [k |-> "next", to |-> to, exc |-> NoExc, value |-> <<>>]
Returns(v) == [k |-> "return", to |-> "done", exc |-> NoExc, value |-> v]
Raises(type, msg) == [k |-> "raise", to |-> "done", exc |-> Exc(type, msg), value |-> <<>>]

\* async_get_snapshot after the device list came back.
snapshot_after_list(opts, sel) ==
    IF sel = NoDevice
    THEN Returns(<<OvenSnapshot(opts, NoDevice, <<>>, None, "F", EmptyStatus, None)>>)
    ELSE Proceed("profile")

\* async_get_snapshot after the profile came back.
snapshot_after_profile(payload) ==
    IF _extract_profile(payload) = <<>>
    THEN Raises("ValueError", "Unexpected profile payload")
    ELSE Proceed("status")

\* async_get_snapshot after the status came back.
snapshot_after_status(r, opts, sel, prof, status) ==
    IF _is_oven(sel)
    THEN LET device == set_status(OvenDevice(prof), status)
             p == _pick_subdevice(device, r.location)
             unit == IF Truthy(p[1].temperature_unit) THEN p[1].temperature_unit ELSE "F"
         IN IF p[1] = NoSub
            THEN Returns(<<OvenSnapshot(opts, sel, <<>>, None, "F", EmptyStatus, None)>>)
            ELSE Returns(<<OvenSnapshot(opts, sel,
                             [i \in DOMAIN device |-> device[i].loc], p[2], unit,
                             [empty |-> FALSE, remote_enabled |-> p[1].remote_enabled,
                              location |-> p[2]],
                             _temp_hint(p[1], unit))>>)
    ELSE IF _is_cooktop(sel)
         THEN Returns(<<OvenSnapshot(opts, sel, <<>>, None, "F",
                          [empty |-> FALSE, remote_enabled |-> None, location |-> None],
                          None)>>)
         ELSE Returns(<<OvenSnapshot(opts, sel, <<>>, None, "F", EmptyStatus, None)>>)

\* async_preheat after the device list came back.
preheat_after_list(sel) ==
    IF sel = NoDevice
    THEN Raises("ValueError", "No oven device found for the provided device_id.")
    ELSE IF ~_is_oven(sel)
         THEN Raises("ValueError", "Selected device is not an oven.")
         ELSE Proceed("profile")

\* `if remote_enabled is False` of async_preheat.
RemoteCheckSkipsUpper(sub) == sub.remote_enabled = "False" /\ sub.name # "UPPER"

remote_is_off(sub) == sub.remote_enabled = "False"

\* async_preheat from the construction of the OvenDevice to the command.
preheat_resolve(r, device) ==
    LET p == _pick_subdevice(device, r.location)
        loc_label == IF Truthy(p[2]) THEN p[2] ELSE "selected location"
    IN IF p[1] = NoSub
       THEN Raises("ValueError", "No oven sub-device found for this model.")
       ELSE IF r.refresh /\ remote_is_off(p[1])
            THEN Raises("ValueError", "Remote control is OFF for " \o loc_label
                                      \o ". Enable remote and try again.")
            ELSE Proceed("command")

PreheatAfterProfileSkipsStatus(r, payload) ==
    IF _extract_profile(payload) = <<>>
    THEN Raises("ValueError", "Unexpected profile payload")
    ELSE preheat_resolve(r, OvenDevice(payload))

\* async_preheat after the profile came back (no status is fetched unless
\* refresh).
preheat_after_profile(r, payload) ==
    IF _extract_profile(payload) = <<>>
    THEN Raises("ValueError", "Unexpected profile payload")
    ELSE IF r.refresh THEN Proceed("status")
         ELSE preheat_resolve(r, OvenDevice(payload))

\* async_preheat after the status came back.
preheat_after_status(r, prof, status) ==
    preheat_resolve(r, set_status(OvenDevice(prof), status))

\* The command async_preheat awaits last.
preheat_command(r, sel, p) ==
    Call(IF upper(r.unit) = "C" THEN "set_cook_mode_with_temperature_c"
         ELSE "set_cook_mode_with_temperature_f",
         sel.device_id, p[1].name, <<r.mode, r.temp[1]>>)

\* async_oven_action after the device list came back.
OvenActionAfterListNoTypeCheck(sel) ==
    IF sel = NoDevice
    THEN Raises("ValueError", "Selected device is not an oven.")
    ELSE Proceed("profile")

oven_action_after_list(sel) ==
    IF sel = NoDevice \/ ~_is_oven(sel)
    THEN Raises("ValueError", "Selected device is not an oven.")
    ELSE Proceed("profile")

\* async_oven_action after the profile came back.
oven_action_after_profile(r, payload) ==
    IF _extract_profile(payload) = <<>>
    THEN Raises("ValueError", "Unexpected profile payload")
    ELSE LET p == _pick_subdevice(OvenDevice(payload), r.location)
         IN IF p[1] = NoSub
            THEN Raises("ValueError", "No oven sub-device found for this model.")
            ELSE IF r.action \in {"start", "stop", "remote_on", "remote_off"}
                 THEN Proceed("command")
                 ELSE Raises("ValueError", "Unknown action: " \o r.action)

\* The command async_oven_action awaits last.
oven_action_command(r, sel, p) ==
    CASE r.action = "start" ->
           Call("set_oven_operation_mode", sel.device_id, p[1].name, <<"START">>)
      [] r.action = "stop" ->
           Call("set_oven_operation_mode", sel.device_id, p[1].name, <<"STOP">>)
      [] r.action = "remote_on" ->
           Call("do_attribute_command", sel.device_id, p[1].name,
                <<"REMOTE_CONTROL_ENABLED", "True">>)
      [] r.action = "remote_off" ->
           Call("do_attribute_command", sel.device_id, p[1].name,
                <<"REMOTE_CONTROL_ENABLED", "False">>)

\* ------------------------------------------------------------------------
\* The route handlers around run_async
\* ------------------------------------------------------------------------
\* `async with ClientSession(...) as session`: the session's state once the
\* block is left, by return or by exception (k).
AsyncWithLeaksOnRaise(k) == IF k = "raise" THEN "open" ELSE "closed"

async_with_exit(k) == "closed"

\* index() from run_async's outcome to its render_template.
IndexTailKeepsNoSnapshot(o) ==
    IF o.k = "raise"
    THEN [NoResp EXCEPT !.kind = "render",
                        !.flashes = <<Flash(o.exc.msg, "error")>>]
    ELSE [NoResp EXCEPT !.kind = "render", !.snapshot = o.value]

index_tail(o) ==
    IF o.k = "raise"
    THEN [NoResp EXCEPT
            !.kind = "render",
            !.flashes = <<Flash(IF o.exc.type = "ThinQAPIException" THEN o.exc.msg
                                ELSE "Unexpected error: " \o o.exc.msg, "error")>>,
            !.snapshot = <<EmptySnapshot>>]
    ELSE [NoResp EXCEPT !.kind = "render", !.snapshot = o.value]

\* preheat() from run_async's outcome (or int()'s ValueError) to its redirect.
preheat_tail(r, o) ==
    [NoResp EXCEPT
       !.kind = "redirect",
       !.flashes =
          IF o.k = "raise"
          THEN <<Flash(IF o.exc.type = "ThinQAPIException" THEN o.exc.msg
                       ELSE "Preheat failed: " \o o.exc.msg, "error")>>
          ELSE <<Flash(IF r.refresh THEN "Refreshed and sent preheat."
                       ELSE "Preheat command sent.", "success")>>,
       !.device_id = r.device_id,
       !.location = r.location]

\* oven_action() from run_async's outcome to its redirect.
oven_action_tail(r, o) ==
    [NoResp EXCEPT
       !.kind = "redirect",
       !.flashes =
          IF o.k = "raise"
          THEN <<Flash(IF o.exc.type = "ThinQAPIException" THEN o.exc.msg
                       ELSE "Oven command failed: " \o o.exc.msg, "error")>>
          ELSE <<Flash("Oven command sent.", "success")>>,
       !.device_id = r.device_id,
       !.location = r.location]

route_tail(r, o) ==
    CASE r.route = "index" -> index_tail(o)
      [] r.route = "preheat" -> preheat_tail(r, o)
      [] r.route = "oven_action" -> oven_action_tail(r, o)

\* The coroutine goes on to its next await, or leaves the `async with` block
\* and the route handler answers.
Continue(o) ==
    IF o.k = "next"
    THEN /\ pc' = o.to
         /\ UNCHANGED <<session, raised, resp>>
    ELSE /\ pc' = "done"
         /\ session' = async_with_exit(o.k)
         /\ raised' = o.exc
         /\ resp' = route_tail(req, o)

\* ------------------------------------------------------------------------
\* Actions
\* ------------------------------------------------------------------------
\* GET /: load_config, then async_get_snapshot up to its first await.
index(env, device_id, location) ==
    /\ pc = "idle"
    /\ LET error == load_config(env)[2]
       IN IF error # None
          THEN /\ req' = [NoReq EXCEPT !.route = "index"]
               /\ resp' = [NoResp EXCEPT !.kind = "render", !.config_error = error]
               /\ raised' = Exc("ConfigMissing", error)
               /\ pc' = "done"
               /\ UNCHANGED session
          ELSE /\ req' = [NoReq EXCEPT !.route = "index", !.device_id = device_id,
                                       !.location = location]
               /\ session' = "open"
               /\ pc' = "list"
               /\ UNCHANGED <<raised, resp>>
    /\ UNCHANGED <<calls, options, selected, profile, picked>>
    /\ UNCHANGED pureVars

\* POST /preheat: load_config, the form, int(temp_raw), then async_preheat up
\* to its first await.
preheat(env, device_id, mode, unit, temp_raw, location, action, location_override) ==
    /\ pc = "idle"
    /\ LET error == load_config(env)[2]
           loc == IF Truthy(location_override) THEN location_override ELSE location
           r == [route |-> "preheat", device_id |-> device_id, location |-> loc,
                 action |-> action, mode |-> mode, temp_raw |-> temp_raw,
                 temp |-> int(temp_raw), unit |-> unit,
                 refresh |-> action \in {"refresh_preheat", "test_upper", "test_lower"}]
           bad == Raises("ValueError",
                         "invalid literal for int() with base 10: '" \o temp_raw \o "'")
       IN IF error # None
          THEN /\ req' = [NoReq EXCEPT !.route = "preheat"]
               /\ resp' = [NoResp EXCEPT !.kind = "redirect",
                                         !.flashes = <<Flash(error, "error")>>]
               /\ raised' = Exc("ConfigMissing", error)
               /\ pc' = "done"
               /\ UNCHANGED session
          ELSE IF r.temp = <<>>
               THEN /\ req' = r
                    /\ resp' = preheat_tail(r, bad)
                    /\ raised' = bad.exc
                    /\ pc' = "done"
                    /\ UNCHANGED session
               ELSE /\ req' = r
                    /\ session' = "open"
                    /\ pc' = "list"
                    /\ UNCHANGED <<raised, resp>>
    /\ UNCHANGED <<calls, options, selected, profile, picked>>
    /\ UNCHANGED pureVars

\* POST /oven-action: load_config, the form, then async_oven_action up to its
\* first await.
oven_action(env, device_id, location, action) ==
    /\ pc = "idle"
    /\ LET error == load_config(env)[2]
       IN IF error # None
          THEN /\ req' = [NoReq EXCEPT !.route = "oven_action"]
               /\ resp' = [NoResp EXCEPT !.kind = "redirect",
                                         !.flashes = <<Flash(error, "error")>>]
               /\ raised' = Exc("ConfigMissing", error)
               /\ pc' = "done"
               /\ UNCHANGED session
          ELSE /\ req' = [NoReq EXCEPT !.route = "oven_action", !.device_id = device_id,
                                       !.location = location, !.action = action]
               /\ session' = "open"
               /\ pc' = "list"
               /\ UNCHANGED <<raised, resp>>
    /\ UNCHANGED <<calls, options, selected, profile, picked>>
    /\ UNCHANGED pureVars

\* await api.async_get_device_list(), and the coroutine up to its next await.
GetDeviceList ==
    /\ pc = "list"
    /\ calls' = Append(calls, Call("async_get_device_list", None, None, <<>>))
    /\ \/ /\ Continue(Raises(VendorError.type, VendorError.msg))
          /\ UNCHANGED <<options, selected>>
       \/ \E i \in DOMAIN DeviceListPayloads :
            LET opts == project_options(_extract_list(DeviceListPayloads[i]))
                sel == _pick_device(opts, req.device_id)
            IN /\ options' = opts
               /\ selected' = sel
               /\ Continue(CASE req.route = "index" -> snapshot_after_list(opts, sel)
                             [] req.route = "preheat" -> preheat_after_list(sel)
                             [] req.route = "oven_action" -> oven_action_after_list(sel))
    /\ UNCHANGED <<req, profile, picked>>
    /\ UNCHANGED pureVars

\* await api.async_get_device_profile(selected.device_id), and the coroutine
\* up to its next await.
GetDeviceProfile ==
    /\ pc = "profile"
    /\ calls' = Append(calls, Call("async_get_device_profile", selected.device_id, None, <<>>))
    /\ \/ /\ Continue(Raises(VendorError.type, VendorError.msg))
          /\ UNCHANGED <<profile, picked>>
       \/ \E payload \in ProfilePayloads :
            LET o == CASE req.route = "index" -> snapshot_after_profile(payload)
                       [] req.route = "preheat" -> preheat_after_profile(req, payload)
                       [] req.route = "oven_action" -> oven_action_after_profile(req, payload)
            IN /\ profile' = IF payload.isdict THEN payload ELSE profile
               /\ picked' = IF payload.isdict
                               /\ (req.route = "oven_action"
                                   \/ (req.route = "preheat" /\ ~req.refresh))
                            THEN _pick_subdevice(OvenDevice(payload), req.location)
                            ELSE picked
               /\ Continue(o)
    /\ UNCHANGED <<req, options, selected>>
    /\ UNCHANGED pureVars

\* await api.async_get_device_status(selected.device_id), and the coroutine
\* up to its next await.
GetDeviceStatus ==
    /\ pc = "status"
    /\ calls' = Append(calls, Call("async_get_device_status", selected.device_id, None, <<>>))
    /\ \/ /\ Continue(Raises(VendorError.type, VendorError.msg))
          /\ UNCHANGED picked
       \/ \E status \in StatusPayloads :
            /\ picked' = IF req.route = "preheat" \/ _is_oven(selected)
                         THEN _pick_subdevice(set_status(OvenDevice(profile), status),
                                              req.location)
                         ELSE picked
            /\ Continue(IF req.route = "index"
                        THEN snapshot_after_status(req, options, selected, profile, status)
                        ELSE preheat_after_status(req, profile, status))
    /\ UNCHANGED <<req, options, selected, profile>>
    /\ UNCHANGED pureVars

\* The awaited command on the resolved sub-device: it goes through, or the
\* vendor refuses it.
SendCommand ==
    /\ pc = "command"
    /\ calls' = Append(calls, IF req.route = "preheat"
                              THEN preheat_command(req, selected, picked)
                              ELSE oven_action_command(req, selected, picked))
    /\ \/ Continue(Returns(<<>>))
       \/ Continue(Raises(VendorError.type, VendorError.msg))
    /\ UNCHANGED <<req, options, selected, profile, picked>>
    /\ UNCHANGED pureVars

\* The response is out; the next request starts from nothing.
NextRequest ==
    /\ pc = "done"
    /\ pc' = "idle"
    /\ req' = NoReq
    /\ session' = "none"
    /\ calls' = <<>>
    /\ options' = <<>>
    /\ selected' = NoDevice
    /\ profile' = NoProfile
    /\ picked' = <<NoSub, None>>
    /\ raised' = NoExc
    /\ resp' = NoResp
    /\ UNCHANGED pureVars

\* A request arrives with some parameters, under some environment.
IndexRequest ==
    /\ pc = "idle"
    /\ \E env \in Envs, device_id \in DeviceIds \cup {None}, location \in LocationNames :
         index(env, device_id, location)

PreheatRequest ==
    /\ pc = "idle"
    /\ \E env \in Envs, device_id \in DeviceIds, mode \in CookModes, unit \in Units,
          temp_raw \in TempRaws, location \in LocationNames, action \in PreheatActions,
          location_override \in Overrides :
         preheat(env, device_id, mode, unit, temp_raw, location, action, location_override)

OvenActionRequest ==
    /\ pc = "idle"
    /\ \E env \in Envs, device_id \in DeviceIds, location \in LocationNames,
          action \in OvenActions :
         oven_action(env, device_id, location, action)

Next ==
    \/ IndexRequest
    \/ PreheatRequest
    \/ OvenActionRequest
    \/ GetDeviceList
    \/ GetDeviceProfile
    \/ GetDeviceStatus
    \/ SendCommand
    \/ NextRequest

Spec == Init /\ [][Next]_vars

\* ------------------------------------------------------------------------
\* The helpers applied on their own, to inputs drawn from bounded sets
\* ------------------------------------------------------------------------
\* Raw entries beyond those of the device-list payloads: an empty id ahead of
\* a usable one, a null type, a type that only the outer mapping carries, a
\* deviceInfo that is no mapping, and a nested null id that shadows the
\* outer one.
rawEmptyId == [deviceId |-> "", device_id |-> "x9", deviceType |-> "DEVICE_OVEN"]
rawNullType == [deviceId |-> "n1", deviceType |-> None, type |-> "DEVICE_HOOD"]
rawOuterType == [deviceType |-> "DEVICE_OVEN", deviceInfo |-> <<[deviceId |-> "i1"]>>]
rawInfoNoDict == [id |-> "d1", type |-> "DEVICE_OVEN", deviceInfo |-> <<>>]
rawShadowedId ==
    [deviceId |-> "outer", deviceInfo |-> <<[deviceId |-> None, deviceType |-> "DEVICE_OVEN"]>>]

RawPool ==
    << rawOven, rawOvenNested, rawCooktop, rawNoId, rawEmptyId, rawNullType,
       rawOuterType, rawInfoNoDict, rawShadowedId >>

\* Flat entries over two id keys and two type keys, each absent, null, empty
\* or set.
Absent == "<absent>"
GenKeys == {"deviceId", "id", "deviceType", "type"}
GenEntry(f) == [k \in {x \in DOMAIN f : f[x] # Absent} |-> f[k]]

OptionPool ==
    << DeviceOption("o1", "A", "", "DEVICE_OVEN"),
       DeviceOption("o1", "B", "", "DEVICE_OVEN"),
       DeviceOption("c1", "C", "", "DEVICE_COOKTOP"),
       DeviceOption("o2", "D", "", "DEVICE_OVEN") >>

RequestedIds == {None, "", "o1", "c1", "o2", "zz"}

\* Devices: up to MaxSubs distinct locations, in any registration order.
RegisteredOrders ==
    {s \in UNION {[1..n -> Location] : n \in 0..MaxSubs} :
        \A i, j \in DOMAIN s : i # j => s[i] # s[j]}

RequestedLocations == {None, "", "oven", "OVEN", "Upper", "lower", "center", "bogus"}

WritablePool ==
    {NoValues, ListValues(<<>>), DictValues(<<>>)}
    \cup {ListValues(l) : l \in UNION {[1..n -> {300, 325}] : n \in 1..MaxValues}}
    \cup {DictValues(d) : d \in
            { << <<"min", 170>>, <<"max", 550>> >>,
              << <<"max", 550>>, <<"min", 170>> >>,
              << <<"min", 170>>, <<"max", 550>>, <<"step", 5>> >>,
              << <<"min", 170>> >>,
              << <<"max", 550>> >>,
              << <<"step", 5>>, <<"min", 170>> >> }}

HintUnits == {"F", "C", "f", "c"}

ApplyToDeviceOption ==
    /\ fn = "none"
    /\ \E f \in [GenKeys -> {Absent, None, "", "a"}], nest \in BOOLEAN,
          outer \in {Absent, None, "b"} :
         LET flat == GenEntry(f)
             entry == IF nest
                      THEN IF outer = Absent THEN [deviceInfo |-> <<flat>>]
                           ELSE [deviceId |-> outer, deviceInfo |-> <<flat>>]
                      ELSE flat
         IN /\ (~nest => outer = Absent)
            /\ fn' = "_to_device_option"
            /\ arg' = entry
            /\ out' = _to_device_option(entry)
    /\ UNCHANGED reqVars

ApplyProjectOptions ==
    /\ fn = "none"
    /\ \E idx \in UNION {[1..n -> DOMAIN RawPool] : n \in 0..MaxEntries} :
         LET devices == [i \in DOMAIN idx |-> RawPool[idx[i]]]
         IN /\ fn' = "project_options"
            /\ arg' = devices
            /\ out' = project_options(devices)
    /\ UNCHANGED reqVars

ApplyPickDevice ==
    /\ fn = "none"
    /\ \E idx \in UNION {[1..n -> DOMAIN OptionPool] : n \in 0..MaxDevices},
          device_id \in RequestedIds :
         LET devices == [i \in DOMAIN idx |-> OptionPool[idx[i]]]
         IN /\ fn' = "_pick_device"
            /\ arg' = <<devices, device_id>>
            /\ out' = _pick_device(devices, device_id)
    /\ UNCHANGED reqVars

ApplyPickSubdevice ==
    /\ fn = "none"
    /\ \E order \in RegisteredOrders, location \in RequestedLocations :
         LET device == OvenDevice(ProfilePayload(TRUE, order))
         IN /\ fn' = "_pick_subdevice"
            /\ arg' = <<device, location>>
            /\ out' = _pick_subdevice(device, location)
    /\ UNCHANGED reqVars

ApplyTempHint ==
    /\ fn = "none"
    /\ \E wc \in WritablePool, wf \in WritablePool, unit \in HintUnits :
         LET subdevice == SubDevice("OVEN", None, None, wc, wf)
         IN /\ fn' = "_temp_hint"
            /\ arg' = <<subdevice, unit>>
            /\ out' = _temp_hint(subdevice, unit)
    /\ UNCHANGED reqVars

Forget ==
    /\ fn # "none"
    /\ fn' = "none"
    /\ arg' = <<>>
    /\ out' = <<>>
    /\ UNCHANGED reqVars

NextPure ==
    \/ ApplyToDeviceOption
    \/ ApplyProjectOptions
    \/ ApplyPickDevice
    \/ ApplyPickSubdevice
    \/ ApplyTempHint
    \/ Forget

SpecPure == Init /\ [][NextPure]_vars

\* ------------------------------------------------------------------------
\* Vocabulary of the properties
\* ------------------------------------------------------------------------
IsPreheatCommand(c) ==
    c.op \in {"set_cook_mode_with_temperature_c", "set_cook_mode_with_temperature_f"}

IsCommand(c) ==
    IsPreheatCommand(c) \/ c.op \in {"set_oven_operation_mode", "do_attribute_command"}

NoCommandSent == \A i \in DOMAIN calls : ~IsCommand(calls[i])

OvenOnly == req.route \in {"preheat", "oven_action"}

ErrorFlashes(r) == {i \in DOMAIN r.flashes : r.flashes[i].category = "error"}
SuccessFlashes(r) == {i \in DOMAIN r.flashes : r.flashes[i].category = "success"}

\* What the user is shown as an error: the error flashes, and the
\* config_error handed to the template.
ErrorNotifications(r) ==
    Cardinality(ErrorFlashes(r)) + (IF r.config_error # None THEN 1 ELSE 0)

KnownActions ==
    {"preheat", "refresh_preheat", "test_upper", "test_lower",
     "start", "stop", "remote_on", "remote_off"}

\* ------------------------------------------------------------------------
\* C1
\* ------------------------------------------------------------------------
\* C1: in a /preheat request whose action is refresh_preheat, test_upper or
\* test_lower, once the status is back and the resolved zone's
\* remote-control-enabled status reads False, the request is over, its one
\* notification is the error "Remote control is OFF for <zone>" naming the
\* resolved zone, and no set-cook-mode command (C or F) was issued.
C1_RemoteOffRefused ==
    (/\ req.route = "preheat"
     /\ req.action \in {"refresh_preheat", "test_upper", "test_lower"}
     /\ picked[1] # NoSub
     /\ picked[1].remote_enabled = "False")
    => /\ pc = "done"
       /\ resp.flashes =
            <<Flash("Preheat failed: Remote control is OFF for " \o picked[1].name
                    \o ". Enable remote and try again.", "error")>>
       /\ \A i \in DOMAIN calls : ~IsPreheatCommand(calls[i])
       /\ \E i \in DOMAIN calls : calls[i].op = "async_get_device_status"

C1_Witness ==
    /\ pc = "done"
    /\ req.action = "test_upper"
    /\ req.location = "Upper"
    /\ picked[2] = "UPPER"
    /\ picked[1].remote_enabled = "False"
    /\ Len(calls) = 3

\* ------------------------------------------------------------------------
\* C2
\* ------------------------------------------------------------------------
\* C2 as stated: in /preheat and /oven-action, when the selected device is
\* not an oven the request fails and no vendor call at all was made.
C2_FailsBeforeAnyVendorCall ==
    (OvenOnly /\ selected # NoDevice /\ ~_is_oven(selected))
    => /\ pc = "done"
       /\ ErrorFlashes(resp) # {}
       /\ calls = <<>>

\* C2 as amended: in /preheat and /oven-action, when the selected device is
\* not an oven the request fails with "Selected device is not an oven.", and
\* the device-list fetch is the only vendor call of the request: no profile,
\* status or command call is made.
C2_FailsRightAfterDeviceList ==
    (OvenOnly /\ selected # NoDevice /\ ~_is_oven(selected))
    => /\ pc = "done"
       /\ Len(resp.flashes) = 1
       /\ resp.flashes[1].category = "error"
       /\ resp.flashes[1].message \in
            {"Preheat failed: Selected device is not an oven.",
             "Oven command failed: Selected device is not an oven."}
       /\ Len(calls) = 1
       /\ calls[1].op = "async_get_device_list"

C2_Witness ==
    /\ pc = "done"
    /\ req.route = "oven_action"
    /\ req.action = "start"
    /\ selected.device_type = "DEVICE_COOKTOP"
    /\ Len(calls) = 1

\* ------------------------------------------------------------------------
\* C3
\* ------------------------------------------------------------------------
\* C3: a /preheat or /oven-action request whose action is none of the eight
\* known names fails and sends no vendor command. (The claim also fixes the
\* error as "unknown action"; what is stated here is what it entails, and
\* only for requests that are otherwise in order: never a command, never a
\* success notification.)
C3_UnknownActionRejected ==
    (/\ OvenOnly
     /\ req.action # None
     /\ req.action \notin KnownActions
     /\ (req.route = "preheat" => req.temp # <<>> /\ req.mode # ""))
    => /\ NoCommandSent
       /\ SuccessFlashes(resp) = {}

\* ------------------------------------------------------------------------
\* C4
\* ------------------------------------------------------------------------
\* C4: a /preheat request sends the set-cook-mode command only if the
\* temperature parsed as an integer and the cook mode is non-empty; when
\* either fails no vendor command is sent and the notification is an error,
\* not the success message.
C4_PreheatPreconditions ==
    (/\ req.route = "preheat"
     /\ req.action # None
     /\ (req.temp = <<>> \/ req.mode = ""))
    => /\ NoCommandSent
       /\ SuccessFlashes(resp) = {}
       /\ (pc = "done" => ErrorFlashes(resp) # {})

\* ------------------------------------------------------------------------
\* C5
\* ------------------------------------------------------------------------
\* C5: a request that opened a vendor session has closed it when the handler
\* returns, on every exit path; vendor calls are made only while the session
\* is open, and no session is open between requests.
C5_SessionClosedOnEveryExit ==
    /\ (pc \in {"idle", "done"} => session # "open")
    /\ (pc = "done" /\ calls # <<>> => session = "closed")
    /\ (pc \in {"list", "profile", "status", "command"} => session = "open")

C5_Witness ==
    /\ pc = "done"
    /\ session = "closed"
    /\ raised = VendorError
    /\ Len(calls) = 3
    /\ IsCommand(calls[3])

\* ------------------------------------------------------------------------
\* C6
\* ------------------------------------------------------------------------
\* C6 as stated: whatever error a request to /, /preheat or /oven-action runs
\* into, the handler returns a response with exactly one error notification
\* and no success notification, and on the view route the rendered snapshot
\* is the empty default one.
C6_ErrorsRecoveredWithDefaultSnapshot ==
    (pc = "done" /\ raised # NoExc)
    => /\ resp.kind \in {"render", "redirect"}
       /\ ErrorNotifications(resp) = 1
       /\ SuccessFlashes(resp) = {}
       /\ (req.route = "index" => resp.snapshot = <<EmptySnapshot>>)

\* C6 as amended: the same, except that for ConfigMissing on the view route
\* no snapshot is rendered at all (snapshot is None) and the one notification
\* is the config_error handed to the template, with nothing flashed; for
\* every other error kind the view route renders the empty default snapshot
\* and flashes the one error.
C6_ErrorsRecovered ==
    /\ (pc = "done" => resp.kind \in {"render", "redirect"})
    /\ (pc = "done" /\ raised # NoExc)
       => /\ ErrorNotifications(resp) = 1
          /\ SuccessFlashes(resp) = {}
          /\ (req.route = "index" /\ raised.type = "ConfigMissing"
              => /\ resp.snapshot = <<>>
                 /\ resp.config_error = raised.msg
                 /\ resp.flashes = <<>>)
          /\ (req.route = "index" /\ raised.type # "ConfigMissing"
              => /\ resp.snapshot = <<EmptySnapshot>>
                 /\ Len(resp.flashes) = 1)

C6_Witness ==
    /\ pc = "done"
    /\ req.route = "index"
    /\ raised = Exc("ValueError", "Unexpected profile payload")
    /\ options # <<>>
    /\ resp.snapshot = <<EmptySnapshot>>
    /\ resp.flashes = <<Flash("Unexpected error: Unexpected profile payload", "error")>>

\* ------------------------------------------------------------------------
\* C7
\* ------------------------------------------------------------------------
\* The spellings under which a request names a location of the vocabulary.
Spellings(l) ==
    CASE l = "OVEN" -> {"OVEN", "oven", "Oven"}
      [] l = "UPPER" -> {"UPPER", "upper", "Upper"}
      [] l = "LOWER" -> {"LOWER", "lower", "Lower"}
      [] l = "CENTER" -> {"CENTER", "center", "Center"}

Registered(device, l) == \E i \in DOMAIN device : device[i].loc = l

EntryOf(device, l) == device[CHOOSE i \in DOMAIN device : device[i].loc = l]

\* C7: _pick_subdevice(device, location) returns (1) the sub-device of the
\* requested location when the name matches, whatever its case, a known
\* location that is registered; (2) otherwise that of the first registered
\* among OVEN, UPPER, LOWER; (3) otherwise the first registered sub-device;
\* (4) (None, None) when none is registered. A returned sub-device comes with
\* the location it is registered under.
C7_PickSubdevice ==
    fn = "_pick_subdevice" =>
      LET device == arg[1]
          name == arg[2]
          asked == {l \in Location : name \in Spellings(l) /\ Registered(device, l)}
          defaults == {l \in {"OVEN", "UPPER", "LOWER"} : Registered(device, l)}
          expected ==
            IF asked # {} THEN EntryOf(device, CHOOSE l \in asked : TRUE)
            ELSE IF "OVEN" \in defaults THEN EntryOf(device, "OVEN")
            ELSE IF "UPPER" \in defaults THEN EntryOf(device, "UPPER")
            ELSE IF "LOWER" \in defaults THEN EntryOf(device, "LOWER")
            ELSE IF device # <<>> THEN device[1]
            ELSE [loc |-> None, sub |-> NoSub]
      IN /\ out = <<expected.sub, expected.loc>>
         /\ (out[1] # NoSub =>
               \E i \in DOMAIN device : device[i].sub = out[1] /\ device[i].loc = out[2])
         /\ (device = <<>> => out = <<NoSub, None>>)

\* A known but unregistered location falls back to the default chain, past
\* a sub-device registered earlier.
C7_Witness ==
    /\ fn = "_pick_subdevice"
    /\ arg[2] = "oven"
    /\ Len(arg[1]) = 3
    /\ arg[1][1].loc = "CENTER"
    /\ arg[1][2].loc = "LOWER"
    /\ arg[1][3].loc = "UPPER"
    /\ out[2] = "UPPER"

\* ------------------------------------------------------------------------
\* C8
\* ------------------------------------------------------------------------
\* The value an entry holds under key k once a nested deviceInfo mapping is
\* merged in: deviceInfo's own fields, and the outer id keys it lacks.
MergedValue(e, k) ==
    IF "deviceInfo" \in DOMAIN e /\ Len(e["deviceInfo"]) = 1
    THEN IF k \in DOMAIN e["deviceInfo"][1] THEN e["deviceInfo"][1][k]
         ELSE IF k \in {"deviceId", "device_id", "id", "deviceID"} /\ k \in DOMAIN e
              THEN e[k]
              ELSE None
    ELSE IF k \in DOMAIN e THEN e[k] ELSE None

\* The first non-null value among the keys, in probing order.
FirstPresent(e, keys) ==
    LET has == {i \in DOMAIN keys : MergedValue(e, keys[i]) # None}
    IN IF has = {} THEN None
       ELSE MergedValue(e, keys[CHOOSE i \in has : \A j \in has : i <= j])

\* An entry's id (type) is missing when no key resolves it to a non-empty text.
Malformed(e) ==
    \/ FirstPresent(e, IdKeys) \in {None, ""}
    \/ FirstPresent(e, TypeKeys) \in {None, ""}

\* C8: projecting a raw device list entry by entry drops exactly the entries
\* whose id or type is missing after the deviceInfo merge; every other entry
\* yields one descriptor, in the original relative order (N entries with k
\* malformed give N-k descriptors), and every descriptor has a non-empty id
\* and a non-empty type.
C8_ProjectionDropsExactlyMalformed ==
    /\ fn = "_to_device_option" =>
         /\ (out = NoDevice) <=> Malformed(arg)
         /\ (out # NoDevice => out.device_id \notin {None, ""}
                               /\ out.device_type \notin {None, ""})
    /\ fn = "project_options" =>
         LET good == {i \in DOMAIN arg : ~Malformed(arg[i])}
             nth(j) == CHOOSE i \in good : Cardinality({g \in good : g <= i}) = j
         IN /\ Len(out) = Cardinality(good)
            /\ \A j \in DOMAIN out :
                 /\ out[j].device_id = FirstPresent(arg[nth(j)], IdKeys)
                 /\ out[j].device_type = FirstPresent(arg[nth(j)], TypeKeys)
                 /\ out[j].device_id \notin {None, ""}
                 /\ out[j].device_type \notin {None, ""}

\* Three entries, the middle one malformed (its type sits outside
\* deviceInfo), give the two others' descriptors in order.
C8_Witness ==
    /\ fn = "project_options"
    /\ Len(arg) = 3
    /\ ~Malformed(arg[1])
    /\ Malformed(arg[2])
    /\ "deviceInfo" \in DOMAIN arg[2]
    /\ ~Malformed(arg[3])
    /\ Len(out) = 2
    /\ out[1].device_id = "c1"
    /\ out[2].device_id = "o1"

\* ------------------------------------------------------------------------
\* C9
\* ------------------------------------------------------------------------
\* C9: _pick_device(devices, requested_id) returns the first device in list
\* order whose id is the requested one; the first device of the list when no
\* id is requested or none matches; no value when the list is empty. A device
\* returned is an element of the list.
C9_PickDevice ==
    fn = "_pick_device" =>
      LET devices == arg[1]
          requested == arg[2]
          hits == {i \in DOMAIN devices : devices[i].device_id = requested}
      IN /\ (devices = <<>> => out = NoDevice)
         /\ (devices # <<>> /\ requested \notin {None, ""} /\ hits # {}
             => out = devices[CHOOSE i \in hits : \A j \in hits : i <= j])
         /\ (devices # <<>> /\ (requested \in {None, ""} \/ hits = {})
             => out = devices[1])
         /\ (out # NoDevice => \E i \in DOMAIN devices : devices[i] = out)

\* Two devices carry the requested id, neither is the first of the list, and
\* the earlier one is returned.
C9_Witness ==
    /\ fn = "_pick_device"
    /\ Len(arg[1]) = 3
    /\ arg[2] = "o1"
    /\ arg[1][1].device_id = "c1"
    /\ arg[1][2] = DeviceOption("o1", "B", "", "DEVICE_OVEN")
    /\ arg[1][3] = DeviceOption("o1", "A", "", "DEVICE_OVEN")
    /\ out = arg[1][2]

\* ------------------------------------------------------------------------
\* C10
\* ------------------------------------------------------------------------
RECURSIVE Joined(_)
Joined(texts) ==
    IF texts = <<>> THEN ""
    ELSE IF Len(texts) = 1 THEN texts[1]
         ELSE Joined(SubSeq(texts, 1, Len(texts) - 1)) \o ", " \o texts[Len(texts)]

\* C10: _temp_hint(subdevice, unit) is "{min}-{max}{UNIT}" when the writable
\* constraint of the unit's target-temperature property is a mapping with min
\* and max; the values joined by ", " when it is a non-empty list; and no
\* hint in every other case (absent, empty, a mapping lacking min or max).
C10_TempHint ==
    fn = "_temp_hint" =>
      LET unit == IF arg[2] \in {"C", "c"} THEN "C" ELSE "F"
          w == IF unit = "C" THEN arg[1].target_c ELSE arg[1].target_f
          mins == {i \in DOMAIN w.dict : w.dict[i][1] = "min"}
          maxs == {i \in DOMAIN w.dict : w.dict[i][1] = "max"}
      IN out = IF w.t = "dict" /\ mins # {} /\ maxs # {}
               THEN ToString(w.dict[CHOOSE i \in mins : TRUE][2]) \o "-"
                    \o ToString(w.dict[CHOOSE i \in maxs : TRUE][2]) \o unit
               ELSE IF w.t = "list" /\ w.list # <<>>
                    THEN Joined([i \in DOMAIN w.list |-> ToString(w.list[i])])
                    ELSE None

\* ------------------------------------------------------------------------
\* C11
\* ------------------------------------------------------------------------
\* The place of a vendor call in the chain list devices, get profile, get
\* status, command.
Rank(c) ==
    CASE c.op = "async_get_device_list" -> 1
      [] c.op = "async_get_device_profile" -> 2
      [] c.op = "async_get_device_status" -> 3
      [] IsCommand(c) -> 4

HasCall(k) == \E i \in DOMAIN calls : Rank(calls[i]) = k

\* C11: within one request the vendor calls follow the order list devices,
\* get profile, get status, command: the calls made are in that order with
\* none repeated (so at most one command); the profile is fetched only after
\* the device list, the status only after the profile, and a command is sent
\* only after the device list and the profile; the profile and status
\* fetches are for the selected device; and in a refresh-class /preheat
\* request a command is sent (or about to be) only after the status fetch,
\* with the resolved zone's remote-control-enabled status not reading False.
C11_VendorCallOrder ==
    /\ \A i, j \in DOMAIN calls : i < j => Rank(calls[i]) < Rank(calls[j])
    /\ (HasCall(2) \/ HasCall(3) \/ HasCall(4) => Rank(calls[1]) = 1)
    /\ (HasCall(3) \/ HasCall(4) => Len(calls) >= 2 /\ Rank(calls[2]) = 2)
    /\ \A i \in DOMAIN calls :
         Rank(calls[i]) \in {2, 3} => calls[i].device_id = selected.device_id
    /\ (pc = "profile" => Len(calls) = 1)
    /\ (pc = "status" => Len(calls) = 2)
    /\ (pc = "command" => ~HasCall(4))
    /\ (req.route = "preheat" /\ req.refresh /\ (HasCall(4) \/ pc = "command")
        => /\ HasCall(3)
           /\ picked[1] # NoSub
           /\ picked[1].remote_enabled # "False")

\* A refresh-class preheat that went through the whole chain.
C11_Witness ==
    /\ pc = "done"
    /\ req.action = "refresh_preheat"
    /\ Len(calls) = 4
    /\ calls[3].op = "async_get_device_status"
    /\ calls[4].op = "set_cook_mode_with_temperature_f"
    /\ picked[1].remote_enabled = "True"
    /\ SuccessFlashes(resp) # {}

\* ------------------------------------------------------------------------
\* C12
\* ------------------------------------------------------------------------
\* C12: in /preheat and /oven-action, a command sent for a request that
\* carries a non-empty device_id goes to the device with exactly that id,
\* and a request whose device_id matches no entry of the fetched device list
\* sends no command to any device. (The claim also fixes the rejection's
\* error text; what is stated here is what it entails about commands, and
\* only for requests with a known action and a cook mode.)
C12_CommandGoesToRequestedDevice ==
    (/\ OvenOnly
     /\ req.device_id \notin {None, ""}
     /\ req.action \in KnownActions
     /\ req.mode # "")
    => /\ \A i \in DOMAIN calls :
            IsCommand(calls[i]) => calls[i].device_id = req.device_id
       /\ (/\ HasCall(1)
           /\ \A k \in DOMAIN options : options[k].device_id # req.device_id)
          => NoCommandSent

====
